---- MODULE Spec2Model ----
(***************************************************************************)
(* A model of datadiag: the DataDiagnoser class (datadiag.py) and the      *)
(* spreadsheet report writer (report.py).                                  *)
(*                                                                         *)
(* A DataFrame is a record [columns, nrows]: the sequence of its columns   *)
(* and the length of its index.  A column is [name, dtype, cells].  A cell *)
(* is an integer: NaN stands for the missing marker (None / numpy.nan),    *)
(* any other integer is the value itself in a numeric column and the code  *)
(* of a text value in an object column.  Column labels of one input table  *)
(* are pairwise different.                                                 *)
(*                                                                         *)
(* An exception is modelled as the status of a result record, named after  *)
(* the Python exception class that the call raises.                        *)
(***************************************************************************)
EXTENDS Integers, Sequences, FiniteSets

VARIABLES
    pc,                 \* "new", "built", "ctor_failed": the diagnoser's life
    dataframe,          \* self.dataframe
    first_columns,      \* self.first_columns
    last_columns,       \* self.last_columns
    ignore_columns,     \* self.ignore_columns
    sorted_dataframe,   \* self.sorted_dataframe
    result,             \* what the last call on the diagnoser returned or raised
    firstDiagnose,      \* what the first call of diagnose() returned or raised
    diagnoseCalls,      \* the calls of diagnose() so far: 0, 1, or 2 for two and more
    file,               \* the file at `filename` on disk
    fileBefore,         \* the file as it was when the last report call began
    call,               \* the arguments of the last report_df_to_excel call
    outcome             \* how the last report_df_to_excel call ended

diagVars == <<pc, dataframe, first_columns, last_columns, ignore_columns,
              sorted_dataframe, result, firstDiagnose, diagnoseCalls>>
reportVars == <<file, fileBefore, call, outcome>>
vars == <<pc, dataframe, first_columns, last_columns, ignore_columns,
          sorted_dataframe, result, firstDiagnose, diagnoseCalls,
          file, fileBefore, call, outcome>>

-----------------------------------------------------------------------------
(* Bounds of the model *)

MaxRows == 2
MaxListLen == 2

\* the missing marker of a cell
NaN == -1

ColNames == {"a", "b", "c"}
CellValues == {1, 2}
Dtypes == {"int64", "float64", "object"}

-----------------------------------------------------------------------------
(* Sequence helpers *)

Range(s) == {s[i] : i \in 1..Len(s)}

RECURSIVE SeqsUpTo(_, _)
SeqsUpTo(S, n) ==
    IF n = 0 THEN {<<>>}
    ELSE LET shorter == SeqsUpTo(S, n - 1)
         IN shorter \cup {Append(s, x) : s \in {t \in shorter : Len(t) = n - 1}, x \in S}

IsInjective(s) == \A i, j \in 1..Len(s) : s[i] = s[j] => i = j

Max(S) == CHOOSE x \in S : \A y \in S : y <= x
Min(S) == CHOOSE x \in S : \A y \in S : x <= y

-----------------------------------------------------------------------------
(* pandas: the DataFrame operations that datadiag.py calls *)

NoFrame == [columns |-> <<>>, nrows |-> 0]
NoResult == [op |-> "none", status |-> "none", rows |-> <<>>, missing |-> {}]

Raise(op, exc, names) == [op |-> op, status |-> exc, rows |-> <<>>, missing |-> names]
Return(op, rows) == [op |-> op, status |-> "ok", rows |-> rows, missing |-> {}]

\* list(df.columns)
Labels(df) == [i \in 1..Len(df.columns) |-> df.columns[i].name]

ColumnOf(df, label) ==
    df.columns[CHOOSE i \in 1..Len(df.columns) : df.columns[i].name = label]

\* df[labels]: the columns named, in the order named; KeyError when a label is
\* not a column of df
GetItem(df, labels) ==
    LET absent == Range(labels) \ Range(Labels(df))
    IN IF absent # {}
       THEN [status |-> "KeyError", missing |-> absent, df |-> NoFrame]
       ELSE [status |-> "ok", missing |-> {},
             df |-> [columns |-> [i \in 1..Len(labels) |-> ColumnOf(df, labels[i])],
                     nrows |-> df.nrows]]

\* Drop as drop(columns=labels, errors='ignore') would be: absent labels skipped
Drop_ErrorsIgnore(df, labels) ==
    LET Kept(c) == c.name \notin Range(labels)
    IN [status |-> "ok", missing |-> {},
        df |-> [columns |-> SelectSeq(df.columns, Kept), nrows |-> df.nrows]]

\* df.drop(columns=labels): a new frame without the columns named (errors='raise':
\* KeyError when a label is not a column of df)
Drop(df, labels) ==
    LET absent == Range(labels) \ Range(Labels(df))
        Kept(c) == c.name \notin Range(labels)
    IN IF absent # {}
       THEN [status |-> "KeyError", missing |-> absent, df |-> NoFrame]
       ELSE [status |-> "ok", missing |-> {},
             df |-> [columns |-> SelectSeq(df.columns, Kept), nrows |-> df.nrows]]

\* IsNullSum as notnull().sum() would be
IsNullSum_NotNull(col) == Cardinality({i \in 1..Len(col.cells) : col.cells[i] # NaN})

\* Series.isnull().sum()
IsNullSum(col) == Cardinality({i \in 1..Len(col.cells) : col.cells[i] = NaN})

\* Series.nunique(): the distinct values, the missing marker left out (dropna=True)
NUnique(col) == Cardinality(Range(col.cells) \ {NaN})

\* pandas.api.types.is_numeric_dtype
IsNumericDtype(col) == col.dtype \in {"int64", "float64", "bool"}

\* Percent with a guard that answers 0 for an empty table
Percent_ZeroGuard(count, n) ==
    IF n = 0
    THEN [kind |-> "num", num |-> 0, den |-> 1]
    ELSE [kind |-> "num", num |-> count * 100, den |-> n]

\* Series / n * 100 on integer counts: a float, kept here as the exact fraction
\* num/den; 0/0 is nan and x/0 is inf (no ZeroDivisionError in pandas)
Percent(count, n) ==
    IF n = 0
    THEN [kind |-> IF count = 0 THEN "nan" ELSE "inf", num |-> 0, den |-> 1]
    ELSE [kind |-> "num", num |-> count * 100, den |-> n]

\* Series.min() / Series.max(): over the values present (skipna=True), nan when
\* there is none
SeriesMin(col) ==
    LET present == Range(col.cells) \ {NaN}
    IN IF present = {} THEN [kind |-> "nan", v |-> 0] ELSE [kind |-> "value", v |-> Min(present)]

SeriesMax(col) ==
    LET present == Range(col.cells) \ {NaN}
    IN IF present = {} THEN [kind |-> "nan", v |-> 0] ELSE [kind |-> "value", v |-> Max(present)]

-----------------------------------------------------------------------------
(* DataDiagnoser *)

\* _sort_dataframe with the last columns put before the remaining ones
sort_dataframe_LastBeforeRemaining(df, first, last) ==
    LET all_columns == Labels(df)
        Remaining(col) == col \notin Range(first \o last)
        remaining_columns == SelectSeq(all_columns, Remaining)
    IN GetItem(df, first \o last \o remaining_columns)

\* DataDiagnoser._sort_dataframe
sort_dataframe(df, first, last) ==
    LET all_columns == Labels(df)
        Remaining(col) == col \notin Range(first \o last)
        remaining_columns == SelectSeq(all_columns, Remaining)
        sorted_columns == first \o remaining_columns \o last
    IN GetItem(df, sorted_columns)

\* AfterDrop as drop(columns=..., inplace=True) would leave the frame
AfterDrop_Inplace(sorted, ignore) ==
    IF Drop(sorted, ignore).status = "ok" THEN Drop(sorted, ignore).df ELSE sorted

\* what self.sorted_dataframe is after a diagnostic has taken its filtered view:
\* drop() without inplace leaves the frame it is called on as it was
AfterDrop(sorted, ignore) == sorted

\* DataDiagnoser.diagnose_missing_values
diagnose_missing_values(sorted, ignore) ==
    LET dropped == Drop(sorted, ignore)
        df_to_diagnose == dropped.df
        Row(col) == [name |-> col.name,
                     abs |-> IsNullSum(col),
                     pct |-> Percent(IsNullSum(col), df_to_diagnose.nrows)]
    IN IF dropped.status # "ok"
       THEN Raise("missing_values", dropped.status, dropped.missing)
       ELSE Return("missing_values",
                   [i \in 1..Len(df_to_diagnose.columns) |-> Row(df_to_diagnose.columns[i])])

\* DataDiagnoser.diagnose_data_types
diagnose_data_types(sorted, ignore) ==
    LET dropped == Drop(sorted, ignore)
        df_to_diagnose == dropped.df
        Row(col) == [name |-> col.name, dtype |-> col.dtype]
    IN IF dropped.status # "ok"
       THEN Raise("data_types", dropped.status, dropped.missing)
       ELSE Return("data_types",
                   [i \in 1..Len(df_to_diagnose.columns) |-> Row(df_to_diagnose.columns[i])])

\* DataDiagnoser.diagnose_unique_values
diagnose_unique_values(sorted, ignore) ==
    LET dropped == Drop(sorted, ignore)
        df_to_diagnose == dropped.df
        Row(col) == [name |-> col.name,
                     count |-> NUnique(col),
                     pct |-> Percent(NUnique(col), df_to_diagnose.nrows)]
    IN IF dropped.status # "ok"
       THEN Raise("unique_values", dropped.status, dropped.missing)
       ELSE Return("unique_values",
                   [i \in 1..Len(df_to_diagnose.columns) |-> Row(df_to_diagnose.columns[i])])

\* pd.DataFrame(min_max_values).T for the dict built by the loop: an empty dict
\* gives an empty frame; a dict whose values are all the scalar 'Not numeric'
\* raises ValueError ("If using all scalar values, you must pass an index");
\* otherwise the index is Min, Max and a scalar is broadcast to both
FrameOfDict(entries) ==
    IF entries = <<>> THEN [status |-> "ok", rows |-> <<>>]
    ELSE IF \A i \in 1..Len(entries) : entries[i].kind = "Not numeric"
         THEN [status |-> "ValueError", rows |-> <<>>]
         ELSE [status |-> "ok", rows |-> entries]

\* DataDiagnoser.diagnose_min_max_values
diagnose_min_max_values(sorted, ignore) ==
    LET dropped == Drop(sorted, ignore)
        df_to_diagnose == dropped.df
        Entry(col) ==
            IF IsNumericDtype(col)
            THEN [name |-> col.name, kind |-> "numeric",
                  Min |-> SeriesMin(col), Max |-> SeriesMax(col)]
            ELSE [name |-> col.name, kind |-> "Not numeric",
                  Min |-> [kind |-> "Not numeric", v |-> 0],
                  Max |-> [kind |-> "Not numeric", v |-> 0]]
        min_max_values == [i \in 1..Len(df_to_diagnose.columns) |->
                              Entry(df_to_diagnose.columns[i])]
        frame == FrameOfDict(min_max_values)
    IN IF dropped.status # "ok"
       THEN Raise("min_max_values", dropped.status, dropped.missing)
       ELSE IF frame.status # "ok"
            THEN Raise("min_max_values", frame.status, {})
            ELSE Return("min_max_values", frame.rows)

\* DataDiagnoser.diagnose: the four results joined on the column label (pd.concat,
\* axis=1); the first call that raises ends it
diagnose(sorted, ignore) ==
    LET data_types == diagnose_data_types(sorted, ignore)
        missing_values == diagnose_missing_values(sorted, ignore)
        unique_values == diagnose_unique_values(sorted, ignore)
        min_max_values == diagnose_min_max_values(sorted, ignore)
        Row(i) == [name |-> data_types.rows[i].name,
                   dtype |-> data_types.rows[i].dtype,
                   abs |-> missing_values.rows[i].abs,
                   pct |-> missing_values.rows[i].pct,
                   count |-> unique_values.rows[i].count,
                   upct |-> unique_values.rows[i].pct,
                   Min |-> min_max_values.rows[i].Min,
                   Max |-> min_max_values.rows[i].Max]
    IN IF data_types.status # "ok"
       THEN Raise("diagnose", data_types.status, data_types.missing)
       ELSE IF missing_values.status # "ok"
       THEN Raise("diagnose", missing_values.status, missing_values.missing)
       ELSE IF unique_values.status # "ok"
       THEN Raise("diagnose", unique_values.status, unique_values.missing)
       ELSE IF min_max_values.status # "ok"
       THEN Raise("diagnose", min_max_values.status, min_max_values.missing)
       ELSE Return("diagnose", [i \in 1..Len(data_types.rows) |-> Row(i)])

-----------------------------------------------------------------------------
(* report.py: the file on disk, the workbook in memory *)

\* A worksheet is [title, cols, widths]: cols[i] is the cells of its i-th column
\* from the first row down, widths[i] the width of column_dimensions of that
\* column in tenths of a character (0: never set).  A cell is [header, label, v,
\* len]: a header cell holds a column label, a data cell the value v; len is
\* len(str(cell.value)).
NoSheet == [title |-> "", cols |-> <<>>, widths |-> <<>>]

\* the file at `filename`: absent, not a spreadsheet document, or a workbook
AbsentFile == [state |-> "absent", sheets |-> <<>>]
CorruptFile == [state |-> "corrupt", sheets |-> <<>>]
WorkbookFile(sheets) == [state |-> "workbook", sheets |-> sheets]

HeaderCell(label) == [header |-> TRUE, label |-> label, v |-> 0, len |-> 1]

\* Series.tolist(): Python ints of an int64 column ("1"), floats of a float64
\* column ("1.0", "nan"), the objects of an object column ("x", "None")
ValueCell(dtype, v) ==
    [header |-> FALSE, label |-> "", v |-> v,
     len |-> CASE dtype = "int64" -> 1
               [] dtype = "float64" -> 3
               [] OTHER -> IF v = NaN THEN 4 ELSE 1]

\* dataframe_to_columns
dataframe_to_columns(df) ==
    [i \in 1..Len(df.columns) |->
        <<HeaderCell(df.columns[i].name)>>
        \o [j \in 1..Len(df.columns[i].cells) |->
               ValueCell(df.columns[i].dtype, df.columns[i].cells[j])]]

\* load_workbook(filename): FileNotFoundError when there is no file, BadZipFile
\* when the file is no spreadsheet document; reading leaves the file as it is
load_workbook(f) ==
    CASE f.state = "absent" -> [status |-> "FileNotFoundError", sheets |-> <<>>]
      [] f.state = "corrupt" -> [status |-> "BadZipFile", sheets |-> <<>>]
      [] OTHER -> [status |-> "ok", sheets |-> f.sheets]

\* NewWorkbook that also writes the empty workbook to `filename`
NewWorkbook_OnDisk(f, sheet_name) ==
    [sheets |-> <<[title |-> sheet_name, cols |-> <<>>, widths |-> <<>>]>>,
     file |-> [state |-> "workbook",
               sheets |-> <<[title |-> sheet_name, cols |-> <<>>, widths |-> <<>>]>>]]

\* the except branch: Workbook() is a workbook in memory of one sheet, which is
\* given the title sheet_name; the file on disk is as it was
NewWorkbook(f, sheet_name) ==
    [sheets |-> <<[NoSheet EXCEPT !.title = sheet_name]>>, file |-> f]

\* ws.append_column(column_df, column=num_col): openpyxl's Worksheet has append,
\* insert_cols, iter_cols, ... and no attribute append_column, and the repository
\* defines none: the attribute lookup raises AttributeError
append_column(ws, blocks, num_col) == [status |-> "AttributeError", ws |-> ws]

\* the resize loop: every column of the sheet gets the width
\* (max len(str(cell.value)) + 2) * 1.2, here in tenths
ResizeColumns(ws) ==
    [ws EXCEPT !.widths =
        [i \in 1..Len(ws.cols) |->
            (Max({0} \cup {ws.cols[i][j].len : j \in 1..Len(ws.cols[i])}) + 2) * 12]]

\* wb.save(filename): the file becomes the workbook
Save(sheets) == WorkbookFile(sheets)

Ended(raised, failedAt, opened, closed, f) ==
    [raised |-> raised, failedAt |-> failedAt, opened |-> opened, closed |-> closed,
     file |-> f]

\* report_df_to_excel: how the call ends and what it leaves on disk
report_df_to_excel(df, f, sheet_name, num_col, resize_columns) ==
    LET loaded == load_workbook(f)
        created == NewWorkbook(f, sheet_name)
        sheets == IF loaded.status = "ok" THEN loaded.sheets ELSE created.sheets
        disk == IF loaded.status = "ok" THEN f ELSE created.file
        ws == sheets[1]
        column_df == dataframe_to_columns(df)
        appended == append_column(ws, column_df, num_col)
        resized == IF resize_columns THEN ResizeColumns(appended.ws) ELSE appended.ws
    IN IF loaded.status \notin {"ok", "FileNotFoundError"}
       THEN Ended(loaded.status, "open", FALSE, FALSE, f)
       ELSE IF appended.status # "ok"
       THEN Ended(appended.status, "insert", TRUE, FALSE, disk)
       ELSE Ended("none", "none", TRUE, TRUE, Save([sheets EXCEPT ![1] = resized]))

NoCall == [made |-> FALSE, df |-> NoFrame, sheet_name |-> "", num_col |-> 0,
           resize_columns |-> FALSE]
NoOutcome == Ended("none", "none", FALSE, FALSE, AbsentFile)

-----------------------------------------------------------------------------
(* The input tables and constructor arguments *)

\* the cells a column of r rows can hold: an int64 column holds no missing marker
CellsOf(dtype, r) ==
    LET vals == IF dtype = "int64" THEN CellValues ELSE CellValues \cup {NaN}
    IN {s \in SeqsUpTo(vals, r) : Len(s) = r}

\* every column of r rows with the given label
ColumnsOf(label, r) ==
    UNION {{[name |-> label, dtype |-> d, cells |-> cs] : cs \in CellsOf(d, r)} : d \in Dtypes}

\* a column for each label, of a content of its own: "a" integers, "b" floats of
\* which the first is missing, "c" text
TypicalColumn(label, r) ==
    CASE label = "a" -> [name |-> label, dtype |-> "int64", cells |-> [i \in 1..r |-> 1]]
      [] label = "b" -> [name |-> label, dtype |-> "float64",
                         cells |-> [i \in 1..r |-> IF i = 1 THEN NaN ELSE 2]]
      [] OTHER -> [name |-> label, dtype |-> "object", cells |-> [i \in 1..r |-> 2]]

\* every order of every subset of the labels, typical contents, MaxRows rows
OrderTables ==
    {[columns |-> [i \in 1..Len(ls) |-> TypicalColumn(ls[i], MaxRows)], nrows |-> MaxRows] :
        ls \in {s \in SeqsUpTo(ColNames, Cardinality(ColNames)) : IsInjective(s)}}

\* the tables of no column and of the one column "a", every content, 0..MaxRows rows
OneColumnTables ==
    UNION {
        {[columns |-> <<>>, nrows |-> r]}
        \cup {[columns |-> <<a>>, nrows |-> r] : a \in ColumnsOf("a", r)}
        : r \in 0..MaxRows}

\* and those of the two columns "a", "b"
StatTables ==
    OneColumnTables
    \cup UNION {
        {[columns |-> <<a, b>>, nrows |-> r] : a \in ColumnsOf("a", r), b \in ColumnsOf("b", r)}
        : r \in 0..MaxRows}

NameLists == {s \in SeqsUpTo(ColNames, MaxListLen) : IsInjective(s)}

\* the ignore lists tried with the tables of every content
IgnoreLists == {<<>>, <<"a">>, <<"c">>, <<"a", "b">>}

\* every order of columns with every first, last and an ignore list of at most one
\* label; every content of columns with every ignore list of IgnoreLists
AllInputs ==
    {[df |-> t, first |-> f, last |-> l, ignore |-> g] :
        t \in OrderTables,
        f \in NameLists, l \in NameLists, g \in SeqsUpTo(ColNames, 1)}
    \cup
    {[df |-> t, first |-> <<>>, last |-> <<>>, ignore |-> g] :
        t \in StatTables,
        g \in IgnoreLists}

Inputs ==
    {in \in AllInputs : Range(in.first) \cap Range(in.last) = {}}

-----------------------------------------------------------------------------
(* The diagnoser as a state machine *)

Init ==
    /\ \E input \in Inputs :
          /\ dataframe = input.df
          /\ first_columns = input.first
          /\ last_columns = input.last
          /\ ignore_columns = input.ignore
    /\ pc = "new"
    /\ sorted_dataframe = NoFrame
    /\ result = NoResult
    /\ firstDiagnose = NoResult
    /\ diagnoseCalls = 0
    /\ file = AbsentFile
    /\ fileBefore = AbsentFile
    /\ call = NoCall
    /\ outcome = NoOutcome

\* DataDiagnoser.__init__, from the call of _sort_dataframe on
Construct ==
    /\ pc = "new"
    /\ LET sorted == sort_dataframe(dataframe, first_columns, last_columns)
       IN IF sorted.status = "ok"
          THEN /\ pc' = "built"
               /\ sorted_dataframe' = sorted.df
               /\ result' = Return("init", <<>>)
          ELSE /\ pc' = "ctor_failed"
               /\ sorted_dataframe' = sorted_dataframe
               /\ result' = Raise("init", sorted.status, sorted.missing)
    /\ UNCHANGED <<dataframe, first_columns, last_columns, ignore_columns, firstDiagnose, diagnoseCalls>>
    /\ UNCHANGED reportVars

DiagnoseMissingValues ==
    /\ pc = "built"
    /\ result' = diagnose_missing_values(sorted_dataframe, ignore_columns)
    /\ sorted_dataframe' = AfterDrop(sorted_dataframe, ignore_columns)
    /\ UNCHANGED <<pc, dataframe, first_columns, last_columns, ignore_columns, firstDiagnose, diagnoseCalls>>
    /\ UNCHANGED reportVars

DiagnoseDataTypes ==
    /\ pc = "built"
    /\ result' = diagnose_data_types(sorted_dataframe, ignore_columns)
    /\ sorted_dataframe' = AfterDrop(sorted_dataframe, ignore_columns)
    /\ UNCHANGED <<pc, dataframe, first_columns, last_columns, ignore_columns, firstDiagnose, diagnoseCalls>>
    /\ UNCHANGED reportVars

DiagnoseUniqueValues ==
    /\ pc = "built"
    /\ result' = diagnose_unique_values(sorted_dataframe, ignore_columns)
    /\ sorted_dataframe' = AfterDrop(sorted_dataframe, ignore_columns)
    /\ UNCHANGED <<pc, dataframe, first_columns, last_columns, ignore_columns, firstDiagnose, diagnoseCalls>>
    /\ UNCHANGED reportVars

DiagnoseMinMaxValues ==
    /\ pc = "built"
    /\ result' = diagnose_min_max_values(sorted_dataframe, ignore_columns)
    /\ sorted_dataframe' = AfterDrop(sorted_dataframe, ignore_columns)
    /\ UNCHANGED <<pc, dataframe, first_columns, last_columns, ignore_columns, firstDiagnose, diagnoseCalls>>
    /\ UNCHANGED reportVars

Diagnose ==
    /\ pc = "built"
    /\ result' = diagnose(sorted_dataframe, ignore_columns)
    /\ firstDiagnose' = IF diagnoseCalls = 0 THEN result' ELSE firstDiagnose
    /\ diagnoseCalls' = IF diagnoseCalls = 0 THEN 1 ELSE 2
    /\ sorted_dataframe' = AfterDrop(sorted_dataframe, ignore_columns)
    /\ UNCHANGED <<pc, dataframe, first_columns, last_columns, ignore_columns>>
    /\ UNCHANGED reportVars

Next ==
    \/ Construct
    \/ DiagnoseMissingValues
    \/ DiagnoseDataTypes
    \/ DiagnoseUniqueValues
    \/ DiagnoseMinMaxValues
    \/ Diagnose

Spec == Init /\ [][Next]_vars

-----------------------------------------------------------------------------
(* The report writer as a state machine *)

\* a workbook that an earlier run left at `filename`
OldSheet == [title |-> "Sheet1",
             cols |-> <<<<HeaderCell("a"), ValueCell("int64", 1)>>>>,
             widths |-> <<36>>]

ReportTables == OrderTables \cup OneColumnTables

InitReport ==
    /\ file \in {AbsentFile, CorruptFile, WorkbookFile(<<OldSheet>>)}
    /\ fileBefore = file
    /\ call = NoCall
    /\ outcome = NoOutcome
    /\ pc = "new"
    /\ dataframe = NoFrame
    /\ first_columns = <<>>
    /\ last_columns = <<>>
    /\ ignore_columns = <<>>
    /\ sorted_dataframe = NoFrame
    /\ result = NoResult
    /\ firstDiagnose = NoResult
    /\ diagnoseCalls = 0

ReportDfToExcel ==
    /\ \E df \in ReportTables, sheet_name \in {"Sheet1", "Report"},
          num_col \in {0, 1}, resize_columns \in BOOLEAN :
          /\ call' = [made |-> TRUE, df |-> df, sheet_name |-> sheet_name,
                      num_col |-> num_col, resize_columns |-> resize_columns]
          /\ outcome' = report_df_to_excel(df, file, sheet_name, num_col, resize_columns)
    /\ fileBefore' = file
    /\ file' = outcome'.file
    /\ UNCHANGED diagVars

NextReport == ReportDfToExcel

SpecReport == InitReport /\ [][NextReport]_vars

-----------------------------------------------------------------------------
(* What the claims speak of *)

TableLabels == Range(Labels(dataframe))
Survivors == TableLabels \ Range(ignore_columns)
FourOps == {"missing_values", "data_types", "unique_values", "min_max_values"}
DiagOps == FourOps \cup {"diagnose"}

\* the place of a label in the input table
Pos(label) == CHOOSE i \in 1..Len(dataframe.columns) : dataframe.columns[i].name = label

\* one row for each column that is not ignored, and no other row
OneRowPerSurvivor(rows) ==
    /\ Len(rows) = Cardinality(Survivors)
    /\ \A i \in 1..Len(rows) : rows[i].name \in Survivors
    /\ \A label \in Survivors : Cardinality({i \in 1..Len(rows) : rows[i].name = label}) = 1

MissingCells(label) ==
    LET cells == ColumnOf(dataframe, label).cells
    IN {i \in 1..Len(cells) : cells[i] = NaN}

PresentValues(label) == Range(ColumnOf(dataframe, label).cells) \ {NaN}

(* C1: for disjoint first and last drawn from the table's columns, construction
   succeeds and the labels of sorted_dataframe are first, then the other columns
   in the order of the table, then last; every column has the dtype and the
   cells, in row order, of the table's column of that label. *)
C1_ReorderContract ==
    (/\ pc # "new"
     /\ Range(first_columns) \cap Range(last_columns) = {}
     /\ Range(first_columns \o last_columns) \subseteq TableLabels)
    => /\ pc = "built"
       /\ LET out == Labels(sorted_dataframe)
              n == Len(out)
              f == Len(first_columns)
              l == Len(last_columns)
          IN /\ n = Len(dataframe.columns)
             /\ SubSeq(out, 1, f) = first_columns
             /\ SubSeq(out, n - l + 1, n) = last_columns
             /\ \A i \in (f + 1)..(n - l) :
                   out[i] \notin Range(first_columns) \cup Range(last_columns)
             /\ \A i, j \in (f + 1)..(n - l) : i < j => Pos(out[i]) < Pos(out[j])
             /\ \A i \in 1..n : sorted_dataframe.columns[i] = ColumnOf(dataframe, out[i])
             /\ sorted_dataframe.nrows = dataframe.nrows

C1_Witness ==
    /\ pc = "built"
    /\ Len(dataframe.columns) = 3
    /\ Len(first_columns) = 1
    /\ Len(last_columns) = 1
    /\ Labels(sorted_dataframe) # Labels(dataframe)
    /\ dataframe.nrows >= 1

(* C2: with every ignored label a column of the table, sorted_dataframe still
   holds every ignored column, and each of the four diagnostics returns one row
   for each column that is not ignored and no row for an ignored one. *)
C2_ReorderAndIgnoreIndependent ==
    (pc = "built" /\ Range(ignore_columns) \subseteq TableLabels)
    => /\ Range(ignore_columns) \subseteq Range(Labels(sorted_dataframe))
       /\ result.op \in FourOps => (result.status = "ok" /\ OneRowPerSurvivor(result.rows))

(* C3: on a table of at least one row, diagnose_missing_values gives for every
   column that is not ignored its number of missing cells, between 0 and the
   number of rows, and the percentage count / rows * 100, between 0 and 100. *)
C3_MissingValues ==
    (/\ pc = "built"
     /\ result.op = "missing_values"
     /\ dataframe.nrows >= 1
     /\ Range(ignore_columns) \subseteq TableLabels)
    => /\ result.status = "ok"
       /\ OneRowPerSurvivor(result.rows)
       /\ \A i \in 1..Len(result.rows) :
             LET row == result.rows[i]
                 count == Cardinality(MissingCells(row.name))
             IN /\ row.abs = count
                /\ 0 <= row.abs /\ row.abs <= dataframe.nrows
                /\ row.pct.kind = "num"
                /\ row.pct.num * dataframe.nrows = count * 100 * row.pct.den
                /\ 0 <= row.pct.num /\ row.pct.num <= 100 * row.pct.den

C3_Witness ==
    /\ pc = "built"
    /\ result.op = "missing_values"
    /\ result.status = "ok"
    /\ dataframe.nrows = 2
    /\ ignore_columns # <<>>
    /\ \E i \in 1..Len(result.rows) : result.rows[i].abs = 1 /\ result.rows[i].pct.num = 100

(* C4: diagnose_min_max_values returns one row for each column that is not
   ignored: the least and the greatest value present of a numeric column that
   has one, a defined entry for a numeric column that has none, and
   "Not numeric" twice for any other column; also when no column that is left
   is numeric. *)
C4_MinMax ==
    (/\ pc = "built"
     /\ result.op = "min_max_values"
     /\ Range(ignore_columns) \subseteq TableLabels)
    => /\ result.status = "ok"
       /\ OneRowPerSurvivor(result.rows)
       /\ \A i \in 1..Len(result.rows) :
             LET row == result.rows[i]
                 present == PresentValues(row.name)
             IN IF IsNumericDtype(ColumnOf(dataframe, row.name))
                THEN IF present # {}
                     THEN /\ row.Min = [kind |-> "value", v |-> Min(present)]
                          /\ row.Max = [kind |-> "value", v |-> Max(present)]
                          /\ row.Min.v <= row.Max.v
                     ELSE row.Min.kind = "nan" /\ row.Max.kind = "nan"
                ELSE row.Min.kind = "Not numeric" /\ row.Max.kind = "Not numeric"

(* C5, as stated: a label of first or last that is no column makes construction
   fail with ColumnNotFound, and a label of ignore that is no column makes every
   diagnostic fail with ColumnNotFound naming the labels; nothing is returned. *)
C5_ColumnNotFound ==
    /\ (pc # "new" /\ ~(Range(first_columns \o last_columns) \subseteq TableLabels))
       => /\ pc = "ctor_failed"
          /\ result.status = "ColumnNotFound"
    /\ (pc = "built" /\ result.op \in DiagOps /\ ~(Range(ignore_columns) \subseteq TableLabels))
       => /\ result.status = "ColumnNotFound"
          /\ result.missing = Range(ignore_columns) \ TableLabels
          /\ result.rows = <<>>

(* C5, amended: the failure is the KeyError of the dataframe library.  A label
   of first or last that is no column makes construction fail with KeyError and
   leaves no sorted table; a label of ignore that is no column makes every
   diagnostic and diagnose fail with KeyError naming exactly the labels that are
   no columns, and no row is returned. *)
C5_KeyError ==
    /\ (pc # "new" /\ ~(Range(first_columns \o last_columns) \subseteq TableLabels))
       => /\ pc = "ctor_failed"
          /\ result.op = "init"
          /\ result.status = "KeyError"
          /\ result.missing = Range(first_columns \o last_columns) \ TableLabels
          /\ sorted_dataframe = NoFrame
    /\ (pc = "built" /\ result.op \in DiagOps /\ ~(Range(ignore_columns) \subseteq TableLabels))
       => /\ result.status = "KeyError"
          /\ result.missing = Range(ignore_columns) \ TableLabels
          /\ result.rows = <<>>

C5_Witness ==
    /\ pc = "built"
    /\ result.op = "min_max_values"
    /\ result.status = "KeyError"
    /\ Len(dataframe.columns) >= 1
    /\ result.missing # {}

(* C9, as stated: on a table of zero rows (with a column to report on, and
   ignore naming columns only) diagnose_missing_values, diagnose_unique_values
   and diagnose fail with EmptyTableError and return no table of NaN
   percentages. *)
C9_EmptyTableError ==
    (/\ pc = "built"
     /\ dataframe.nrows = 0
     /\ Range(ignore_columns) \subseteq TableLabels
     /\ Survivors # {}
     /\ result.op \in {"missing_values", "unique_values", "diagnose"})
    => result.status = "EmptyTableError"

(* C9, amended: on a table of zero rows (ignore naming columns only)
   diagnose_missing_values and diagnose_unique_values do not fail: they return
   one row for each column that is not ignored, with the count 0 and the
   percentage NaN; diagnose raises no EmptyTableError either, and when it
   returns its two percentages are NaN in every row. *)
C9_NaNNotError ==
    (/\ pc = "built"
     /\ dataframe.nrows = 0
     /\ Range(ignore_columns) \subseteq TableLabels)
    => /\ result.op = "missing_values"
          => /\ result.status = "ok"
             /\ OneRowPerSurvivor(result.rows)
             /\ \A i \in 1..Len(result.rows) :
                   result.rows[i].abs = 0 /\ result.rows[i].pct.kind = "nan"
       /\ result.op = "unique_values"
          => /\ result.status = "ok"
             /\ OneRowPerSurvivor(result.rows)
             /\ \A i \in 1..Len(result.rows) :
                   result.rows[i].count = 0 /\ result.rows[i].pct.kind = "nan"
       /\ result.op = "diagnose"
          => /\ result.status # "EmptyTableError"
             /\ result.status = "ok"
                => \A i \in 1..Len(result.rows) :
                      result.rows[i].pct.kind = "nan" /\ result.rows[i].upct.kind = "nan"

C9_Witness ==
    /\ pc = "built"
    /\ dataframe.nrows = 0
    /\ result.op = "diagnose"
    /\ result.status = "ok"
    /\ Len(result.rows) >= 1
    /\ result.rows[1].pct.kind = "nan"

(* C10: no call of a diagnostic or of diagnose changes the stored table, the
   sorted table or the first, last and ignore lists, and every call of diagnose
   returns (or raises) what the first call of diagnose did. *)
C10_DiagnosticsPure ==
    [][ /\ pc = "built"
           => UNCHANGED <<dataframe, sorted_dataframe, first_columns, last_columns,
                          ignore_columns>>
        /\ result'.op = "diagnose" => result' = firstDiagnose' ]_vars

C10_Witness ==
    /\ pc = "built"
    /\ diagnoseCalls = 2
    /\ result.op = "diagnose"
    /\ result.status = "ok"
    /\ result = firstDiagnose
    /\ ignore_columns # <<>>
    /\ Len(result.rows) >= 1

(* C6: a call on a path that holds no file ends without an exception and leaves
   a workbook of one sheet titled sheet_name with one column per table column:
   the header and then the values; with resize_columns every width is
   (longest len(str(cell)) + 2) * 1.2. *)
C6_NewFileWritten ==
    (/\ call.made
     /\ fileBefore.state = "absent"
     /\ Len(call.df.columns) >= 1
     /\ call.df.nrows >= 1)
    => /\ outcome.raised = "none"
       /\ file.state = "workbook"
       /\ Len(file.sheets) = 1
       /\ file.sheets[1].title = call.sheet_name
       /\ file.sheets[1].cols = dataframe_to_columns(call.df)
       /\ call.resize_columns
          => \A i \in 1..Len(file.sheets[1].cols) :
                file.sheets[1].widths[i] =
                    (Max({file.sheets[1].cols[i][j].len :
                             j \in 1..Len(file.sheets[1].cols[i])}) + 2) * 12

(* C7: whenever the call has opened or created the workbook, the workbook has
   been closed when the call returns or raises. *)
C7_HandleReleased ==
    (call.made /\ outcome.opened) => outcome.closed

(* C8: a call that fails before the save step leaves the file as it was before
   the call (a file that was absent stays absent) and raises to the caller. *)
C8_FileUntouchedOnFailure ==
    (call.made /\ outcome.failedAt \in {"open", "transform", "insert", "resize"})
    => /\ file = fileBefore
       /\ outcome.raised # "none"

C8_Witness ==
    /\ call.made
    /\ fileBefore.state = "absent"
    /\ outcome.failedAt = "insert"
    /\ outcome.raised = "AttributeError"
    /\ file.state = "absent"

====
